---------------------------- MODULE Spec2Model ----------------------------
(***************************************************************************)
(* Model of the PDF table scraper of estimator-gpt-backend                 *)
(* (src/pdf_parser.py): extract_tables_from_pdf, parse_door_schedule and   *)
(* extract_structured_takeoff.                                             *)
(*                                                                         *)
(* A string is a sequence of characters; a character is a one-character    *)
(* string, except the three non-ASCII characters of the second size        *)
(* pattern, which are written by name:                                     *)
(*   "RSQUO" = U+2019 (right single quote), "RDQUO" = U+201D (right double *)
(*   quote), "TIMES" = U+00D7 (multiplication sign).                       *)
(***************************************************************************)
EXTENDS Integers, Sequences, FiniteSets, TLC

VARIABLES
    openable,            \* whether fitz.open(file_path) succeeds
    doc,                 \* the pages of the document, each the lines printed on it
    pc,                  \* position in extract_structured_takeoff
    page_num,            \* pages already scanned by extract_tables_from_pdf
    tables,              \* tables / raw_tables
    t_idx,               \* tables already visited by extract_structured_takeoff
    structured_results,  \* structured_results
    calls,               \* calls of extract_structured_takeoff that have returned
    prev,                \* what the call before this one returned
    files_storage,       \* api.py: files_storage, file_id -> path
    disk,                \* api.py: the files under UPLOAD_DIR, path -> content
    next_id,             \* api.py: the uuid4() values drawn so far
    nreq,                \* api.py: the requests answered so far
    last,                \* api.py: the last request and its response
    deleted,              \* api.py: the file ids delete_file has removed
    input_text,          \* classifier: the text of the document of the request
    matches,             \* classifier: the match records returned
    user_pricing_overrides  \* api.py: the rows of the table, by primary key

\* the state of the parser of pdf_parser.py
parser_vars == <<openable, doc, pc, page_num, tables, t_idx, structured_results,
                 calls, prev>>

\* the state of the endpoints of api.py
api_vars == <<files_storage, disk, next_id, nreq, last, deleted>>

\* the state of the keyword classifier
classifier_vars == <<input_text, matches>>

\* the state of the database of api.py
db_vars == <<user_pricing_overrides>>

vars == <<openable, doc, pc, page_num, tables, t_idx, structured_results,
          calls, prev, api_vars, classifier_vars, db_vars>>

-----------------------------------------------------------------------------
(* Bounds of the model *)

\* lines of a generated document, over all its pages
MaxLines == 4
\* pages of a generated document
MaxPages == 2
\* rows under the header of a generated door schedule
MaxRows == 2
\* calls of extract_structured_takeoff on the same document
MaxCalls == 2
\* requests to the file endpoints (upload, get, delete) in one behaviour
MaxRequests == 4

-----------------------------------------------------------------------------
(* Characters and the str methods the parser uses *)

Min(S) == CHOOSE x \in S : \A y \in S : x <= y
Max(S) == CHOOSE x \in S : \A y \in S : x >= y

\* the whitespace characters of the model: what str.strip, str.split and \s take
Whitespace == {" ", "\t"}

Digits == {"0", "1", "2", "3", "4", "5", "6", "7", "8", "9"}

\* the value int() gives one decimal digit
DigitValue(c) ==
    CASE c = "0" -> 0 [] c = "1" -> 1 [] c = "2" -> 2 [] c = "3" -> 3
      [] c = "4" -> 4 [] c = "5" -> 5 [] c = "6" -> 6 [] c = "7" -> 7
      [] c = "8" -> 8 [] c = "9" -> 9

\* str.lower / re.IGNORECASE on one character (the letters the model writes)
lower(c) ==
    CASE c = "A" -> "a" [] c = "B" -> "b" [] c = "C" -> "c" [] c = "D" -> "d"
      [] c = "E" -> "e" [] c = "H" -> "h" [] c = "M" -> "m" [] c = "O" -> "o"
      [] c = "Q" -> "q" [] c = "R" -> "r" [] c = "S" -> "s" [] c = "T" -> "t"
      [] c = "X" -> "x" [] c = "Y" -> "y" [] c = "Z" -> "z"
      [] OTHER -> c

\* s.strip()
strip(s) ==
    LET keep == {k \in 1..Len(s) : s[k] \notin Whitespace}
    IN  IF keep = {} THEN <<>> ELSE SubSeq(s, Min(keep), Max(keep))

\* s.split(): the maximal runs of non-whitespace characters, from position k on
RECURSIVE split_from(_, _, _, _)
split_from(s, k, cur, acc) ==
    IF k > Len(s)
    THEN IF cur = <<>> THEN acc ELSE Append(acc, cur)
    ELSE IF s[k] \in Whitespace
         THEN split_from(s, k + 1, <<>>, IF cur = <<>> THEN acc ELSE Append(acc, cur))
         ELSE split_from(s, k + 1, Append(cur, s[k]), acc)

split(s) == split_from(s, 1, <<>>, <<>>)

\* text.split('\n'): every newline ends a piece, empty pieces are kept
RECURSIVE split_nl_from(_, _, _, _)
split_nl_from(text, k, cur, acc) ==
    IF k > Len(text)
    THEN Append(acc, cur)
    ELSE IF text[k] = "\n"
         THEN split_nl_from(text, k + 1, <<>>, Append(acc, cur))
         ELSE split_nl_from(text, k + 1, Append(cur, text[k]), acc)

split_nl(text) == split_nl_from(text, 1, <<>>, <<>>)

\* page.get_text("text"): the lines of the page, each ended by a newline
RECURSIVE get_text(_)
get_text(page) ==
    IF page = <<>> THEN <<>>
    ELSE Head(page) \o <<"\n">> \o get_text(Tail(page))

-----------------------------------------------------------------------------
(* extract_tables_from_pdf *)

\* the alternatives of the header pattern (Door|Type|Qty|Size|Material)
HeaderTokens ==
    { <<"D", "o", "o", "r">>, <<"T", "y", "p", "e">>, <<"Q", "t", "y">>,
      <<"S", "i", "z", "e">>, <<"M", "a", "t", "e", "r", "i", "a", "l">> }

\* kw matches s at position p, letter case ignored
MatchesAt(s, p, kw) ==
    /\ p + Len(kw) - 1 <= Len(s)
    /\ \A k \in 1..Len(kw) : lower(s[p + k - 1]) = lower(kw[k])

\* a faulty IsHeaderLine: a pattern with an empty alternative, found in any line
IsHeaderLine_EmptyAlternative(line) == TRUE

\* a faulty IsHeaderLine: the search without re.IGNORECASE
IsHeaderLine_CaseSensitive(line) ==
    \E kw \in HeaderTokens : \E p \in 1..Len(line) :
        /\ p + Len(kw) - 1 <= Len(line)
        /\ \A k \in 1..Len(kw) : line[p + k - 1] = kw[k]

\* re.search(r"(Door|Type|Qty|Size|Material)", line, re.IGNORECASE)
IsHeaderLine(line) ==
    \E kw \in HeaderTokens : \E p \in 1..Len(line) : MatchesAt(line, p, kw)

\* a faulty EndsTable: the test of the blank line alone
EndsTable_BlankOnly(next_line) == strip(next_line) = <<>>

\* the test that ends the collection of rows at next_line
EndsTable(next_line) ==
    strip(next_line) = <<>> \/ Len(split(next_line)) < 2

\* for j in range(i + 1, len(lines)): ... table_rows.append(next_line)
RECURSIVE collect_rows(_, _, _)
collect_rows(lines, j, table_rows) ==
    IF j > Len(lines) THEN table_rows
    ELSE IF EndsTable(lines[j]) THEN table_rows
    ELSE collect_rows(lines, j + 1, Append(table_rows, lines[j]))

\* a faulty NewTable: "rows": table_rows, the header line kept
NewTable_KeepsHeader(page_no, lines, i) ==
    [page |-> page_no, header |-> lines[i],
     rows |-> collect_rows(lines, i + 1, <<lines[i]>>)]

\* the table appended for the header at lines[i] of page number page_no
NewTable(page_no, lines, i) ==
    LET table_rows == collect_rows(lines, i + 1, <<lines[i]>>)
    IN  [page |-> page_no, header |-> lines[i], rows |-> Tail(table_rows)]

\* a faulty scan_lines: the scan goes on after the rows of the table it appended
RECURSIVE scan_lines_NoOverlap(_, _, _, _)
scan_lines_NoOverlap(page_no, lines, i, acc) ==
    IF i > Len(lines) THEN acc
    ELSE IF IsHeaderLine(lines[i])
         THEN scan_lines_NoOverlap(
                  page_no, lines,
                  i + Len(collect_rows(lines, i + 1, <<lines[i]>>)),
                  Append(acc, [page |-> page_no, header |-> lines[i],
                               rows |-> Tail(collect_rows(lines, i + 1, <<lines[i]>>))]))
         ELSE scan_lines_NoOverlap(page_no, lines, i + 1, acc)

\* for i, line in enumerate(lines): one table for each header line
RECURSIVE scan_lines(_, _, _, _)
scan_lines(page_no, lines, i, acc) ==
    IF i > Len(lines) THEN acc
    ELSE IF IsHeaderLine(lines[i])
         THEN scan_lines(page_no, lines, i + 1, Append(acc, NewTable(page_no, lines, i)))
         ELSE scan_lines(page_no, lines, i + 1, acc)

\* a faulty ScanPageTables: "page": page_num, the page numbers 0-based
ScanPageTables_ZeroBased(idx, page, acc) ==
    scan_lines(idx, split_nl(get_text(page)), 1, acc)

\* the body of the loop over the pages, for the page with index idx (0-based)
ScanPageTables(idx, page, acc) ==
    scan_lines(idx + 1, split_nl(get_text(page)), 1, acc)

-----------------------------------------------------------------------------
(* parse_door_schedule *)

\* the number of consecutive characters of s from position k on that are in C
RECURSIVE run_len(_, _, _)
run_len(s, k, C) ==
    IF k > Len(s) \/ s[k] \notin C THEN 0 ELSE 1 + run_len(s, k + 1, C)

\* a faulty sep_len: the pattern \s+, any run of whitespace separates
sep_len_AnyWhitespace(s, k) == run_len(s, k, Whitespace)

\* the length of the match of \s{2,}|\t+ at position k of s, 0 when there is none:
\* the first alternative takes a whole run of two or more whitespace characters,
\* the second alternative takes a run of tabs
sep_len(s, k) ==
    IF run_len(s, k, Whitespace) >= 2
    THEN run_len(s, k, Whitespace)
    ELSE run_len(s, k, {"\t"})

\* re.split(r'\s{2,}|\t+', s): the pieces of s between the matches, left to right
RECURSIVE re_split_from(_, _, _, _)
re_split_from(s, k, cur, acc) ==
    IF k > Len(s)
    THEN Append(acc, cur)
    ELSE IF sep_len(s, k) > 0
         THEN re_split_from(s, k + sep_len(s, k), <<>>, Append(acc, cur))
         ELSE re_split_from(s, k + 1, Append(cur, s[k]), acc)

re_split(s) == re_split_from(s, 1, <<>>, <<>>)

\* Matching a pattern from the start of s: P is the set of positions the match
\* may have reached, and each element of the pattern moves it on.
\* one character of the class C
Ch(s, P, C) == {p + 1 : p \in {q \in P : q <= Len(s) /\ s[q] \in C}}
\* an optional character of the class C
Opt(s, P, C) == P \cup Ch(s, P, C)
\* \d{1,2}
Digits12(s, P) == Ch(s, P, Digits) \cup Ch(s, Ch(s, P, Digits), Digits)
\* \d+
RECURSIVE DigitsPlus(_, _)
DigitsPlus(s, P) ==
    LET Q == Ch(s, P, Digits)
    IN  IF Q = {} THEN {} ELSE Q \cup DigitsPlus(s, Q)

\* re.match(r"\d+'\d{1,2}\"x\d+'\d{1,2}\"", part)
MatchStraight(part) ==
    LET feet1 == Ch(part, DigitsPlus(part, {1}), {"'"})
        inch1 == Ch(part, Digits12(part, feet1), {"\""})
        by    == Ch(part, inch1, {"x"})
        feet2 == Ch(part, DigitsPlus(part, by), {"'"})
        inch2 == Ch(part, Digits12(part, feet2), {"\""})
    IN  inch2 # {}

\* re.match(r"\d[RSQUO']\d{1,2}[RDQUO\"]?[xX TIMES]\d[RSQUO']\d{1,2}[RDQUO\"]?", part)
MatchTypographic(part) ==
    LET feet1 == Ch(part, Ch(part, {1}, Digits), {"RSQUO", "'"})
        inch1 == Opt(part, Digits12(part, feet1), {"RDQUO", "\""})
        by    == Ch(part, inch1, {"x", "X", "TIMES"})
        feet2 == Ch(part, Ch(part, by, Digits), {"RSQUO", "'"})
        inch2 == Opt(part, Digits12(part, feet2), {"RDQUO", "\""})
    IN  inch2 # {}

\* the condition under which a part is appended to sizes
IsSize(part) == MatchStraight(part) \/ MatchTypographic(part)

\* part.isdigit()
isdigit(part) == part # <<>> /\ \A k \in 1..Len(part) : part[k] \in Digits

\* int(part), for a part of decimal digits
RECURSIVE int(_)
int(part) ==
    IF part = <<>> THEN 0
    ELSE 10 * int(SubSeq(part, 1, Len(part) - 1)) + DigitValue(part[Len(part)])

\* a faulty append_sizes: a size already in sizes is not appended again
RECURSIVE append_sizes_NoDuplicates(_, _, _)
append_sizes_NoDuplicates(parts, k, sizes) ==
    IF k > Len(parts) THEN sizes
    ELSE IF IsSize(parts[k]) /\ ~(\E i \in 1..Len(sizes) : sizes[i] = parts[k])
         THEN append_sizes_NoDuplicates(parts, k + 1, Append(sizes, parts[k]))
         ELSE append_sizes_NoDuplicates(parts, k + 1, sizes)

\* first loop over the parts of a row: sizes.append(part) for each size
RECURSIVE append_sizes(_, _, _)
append_sizes(parts, k, sizes) ==
    IF k > Len(parts) THEN sizes
    ELSE IF IsSize(parts[k])
         THEN append_sizes(parts, k + 1, Append(sizes, parts[k]))
         ELSE append_sizes(parts, k + 1, sizes)

\* a faulty add_count: no break, every digits-only part of the row is added
RECURSIVE add_count_NoBreak(_, _, _)
add_count_NoBreak(parts, k, door_count) ==
    IF k > Len(parts) THEN door_count
    ELSE IF isdigit(parts[k])
         THEN add_count_NoBreak(parts, k + 1, door_count + int(parts[k]))
         ELSE add_count_NoBreak(parts, k + 1, door_count)

\* second loop over the parts of a row: door_count += int(part); break
RECURSIVE add_count(_, _, _)
add_count(parts, k, door_count) ==
    IF k > Len(parts) THEN door_count
    ELSE IF isdigit(parts[k])
         THEN door_count + int(parts[k])
         ELSE add_count(parts, k + 1, door_count)

\* the parts of one row
row_parts(row) == re_split(strip(row))

\* a faulty parse_rows: the break leaves the loop over the rows too, so the
\* rows after the first one with a digits-only part add nothing to the count
RECURSIVE parse_rows_FirstMatchOnly(_, _, _, _)
parse_rows_FirstMatchOnly(rows, r, door_count, sizes) ==
    IF r > Len(rows) THEN <<door_count, sizes>>
    ELSE parse_rows_FirstMatchOnly(
             rows, r + 1,
             IF \E q \in 1..(r - 1) :
                    \E k \in 1..Len(row_parts(rows[q])) : isdigit(row_parts(rows[q])[k])
             THEN door_count
             ELSE add_count(row_parts(rows[r]), 1, door_count),
             append_sizes(row_parts(rows[r]), 1, sizes))

\* for row in table["rows"]: [door_count, sizes] after the rows from r on
RECURSIVE parse_rows(_, _, _, _)
parse_rows(rows, r, door_count, sizes) ==
    IF r > Len(rows) THEN <<door_count, sizes>>
    ELSE parse_rows(rows, r + 1,
                    add_count(row_parts(rows[r]), 1, door_count),
                    append_sizes(row_parts(rows[r]), 1, sizes))

parse_door_schedule(table) ==
    LET out == parse_rows(table.rows, 1, 0, <<>>)
    IN  [scope |-> "Doors", count |-> out[1], sizes |-> out[2],
         source_page |-> table.page]

-----------------------------------------------------------------------------
(* extract_structured_takeoff *)

\* a faulty IsDoorHeader: "door" in table["header"], without lower()
IsDoorHeader_CaseSensitive(header) ==
    \E p \in 1..Len(header) :
        /\ p + 3 <= Len(header)
        /\ SubSeq(header, p, p + 3) = <<"d", "o", "o", "r">>

\* "door" in table["header"].lower()
IsDoorHeader(header) ==
    \E p \in 1..Len(header) :
        /\ p + 3 <= Len(header)
        /\ <<lower(header[p]), lower(header[p + 1]),
             lower(header[p + 2]), lower(header[p + 3])>> = <<"d", "o", "o", "r">>

-----------------------------------------------------------------------------
(* The documents the model reads *)

\* the line  the empty line
LineBlank ==
    <<>>

\* the line  the line of a space and a tab
LineSpaces ==
    <<" ", "\t">>

\* the line  A B
LineAB ==
    <<"A", " ", "B">>

\* the line  C D
LineCD ==
    <<"C", " ", "D">>

\* the line  Door
LineDoor ==
    <<"D", "o", "o", "r">>

\* the line  DOOR qty
LineDoorQty ==
    <<"D", "O", "O", "R", " ", "q", "t", "y">>

\* the line  TYPE  size
LineTypeSize ==
    <<"T", "Y", "P", "E", " ", " ", "s", "i", "z", "e">>

\* the lines of the generated pages
SegLexicon == {LineBlank, LineAB, LineCD, LineDoor, LineTypeSize}

\* the line  2 HM-1 3'0"x7'0"
RowQtyFirst ==
    <<"2", " ", "H", "M", "-", "1", " ", "3", "'", "0", "\"", "x", "7",
      "'", "0", "\"">>

\* the line  HM-1 2 3'0"x7'0" 4
RowQtySecond ==
    <<"H", "M", "-", "1", " ", "2", " ", "3", "'", "0", "\"", "x", "7",
      "'", "0", "\"", " ", "4">>

\* the line  HM-1  3'0"x7'0"  Hollow Metal
RowHollowMetal ==
    <<"H", "M", "-", "1", " ", " ", "3", "'", "0", "\"", "x", "7", "'",
      "0", "\"", " ", " ", "H", "o", "l", "l", "o", "w", " ", "M", "e",
      "t", "a", "l">>

\* the line  HM-1  2  3'0"x7'0"  4
RowTwoNumbers ==
    <<"H", "M", "-", "1", " ", " ", "2", " ", " ", "3", "'", "0", "\"",
      "x", "7", "'", "0", "\"", " ", " ", "4">>

\* the line  12<TAB>B
RowTabs ==
    <<"1", "2", "\t", "B">>

\* the line  A  3'0"x7'0"  07  written with U+2019, U+201D and U+00D7
RowTypographic ==
    <<"A", " ", " ", "3", "RSQUO", "0", "RDQUO", "TIMES", "7", "RSQUO",
      "0", "RDQUO", " ", " ", "0", "7">>

\* the line    3  10'0"x7'0"
RowIndented ==
    <<" ", " ", "3", " ", " ", "1", "0", "'", "0", "\"", "x", "7", "'",
      "0", "\"">>

\* the line  B  10'0"x7'0"  written with U+2019 and U+201D
RowTypographicWide ==
    <<"B", " ", " ", "1", "0", "RSQUO", "0", "RDQUO", "x", "7", "RSQUO",
      "0", "RDQUO">>

\* the line  3'0"x7'0" wide  1
RowSizeWithNote ==
    <<"3", "'", "0", "\"", "x", "7", "'", "0", "\"", " ", "w", "i", "d",
      "e", " ", " ", "1">>

\* the line  3x7  5
RowNoSize ==
    <<"3", "x", "7", " ", " ", "5">>

\* the line  2  HM-1  3'0"x7'0"
RowQtyFirstWide ==
    <<"2", " ", " ", "H", "M", "-", "1", " ", " ", "3", "'", "0", "\"", "x",
      "7", "'", "0", "\"">>

\* the lines under the header of the generated door schedules
RowLexicon ==
    {RowQtyFirst, RowQtySecond, RowHollowMetal, RowTwoNumbers,
     RowTabs, RowTypographic, RowIndented, RowTypographicWide,
     RowSizeWithNote, RowNoSize, RowQtyFirstWide, LineSpaces, LineTypeSize}

\* the sequences of at most n elements of S
SeqsUpTo(S, n) == UNION {[1..m -> S] : m \in 0..n}

\* the ways to cut the lines ls into at most k pages, none of them empty
RECURSIVE Paginations(_, _)
Paginations(ls, k) ==
    IF k <= 1 \/ Len(ls) <= 1
    THEN {<<ls>>}
    ELSE {<<ls>>} \cup
         UNION {{<<SubSeq(ls, 1, c)>> \o rest :
                    rest \in Paginations(SubSeq(ls, c + 1, Len(ls)), k - 1)} :
                c \in 1..(Len(ls) - 1)}

\* documents of at most MaxPages pages and n lines of SegLexicon
SegDocs(n) == UNION {Paginations(ls, MaxPages) : ls \in SeqsUpTo(SegLexicon, n)}

\* one-page door schedules: a door header and at most MaxRows lines of RowLexicon
DoorDocs == {<< <<LineDoorQty>> \o rs >> : rs \in SeqsUpTo(RowLexicon, MaxRows)}

\* the documents of at most n lines, and the door schedules
Docs(n) == SegDocs(n) \cup DoorDocs

-----------------------------------------------------------------------------
(* The state machine: one call of extract_structured_takeoff(file_path) *)

\* the empty dict
EmptyMap == [x \in {} |-> x]

\* no request answered yet
NoRequest ==
    [op |-> "none", status |-> 0, raised |-> 0, id |-> <<>>, files |-> <<>>,
     methods |-> <<>>, open_failed |-> FALSE, text |-> <<>>, replies |-> <<>>, body |-> <<>>]

\* api.py after import: files_storage = {}, UPLOAD_DIR made, nothing uploaded,
\* and init_db() has made the tables of a new database
ApiIdle ==
    /\ user_pricing_overrides = EmptyMap
    /\ files_storage = EmptyMap
    /\ disk = EmptyMap
    /\ next_id = 0
    /\ nreq = 0
    /\ last = NoRequest
    /\ deleted = {}

\* no text has been classified
ClassifierIdle == input_text = <<>> /\ matches = <<>>

\* a file that cannot be opened has no pages to read
Init ==
    /\ \/ openable = TRUE /\ doc \in Docs(MaxLines)
       \/ openable = FALSE /\ doc = <<>>
    /\ pc = "open"
    /\ page_num = 0
    /\ tables = <<>>
    /\ t_idx = 0
    /\ structured_results = <<>>
    /\ calls = 0
    /\ prev = [tables |-> <<>>, results |-> <<>>]
    /\ ApiIdle
    /\ ClassifierIdle

\* a faulty Open: tables is not made empty, it lives on from call to call
Open_KeepsTables ==
    /\ pc = "open"
    /\ openable
    /\ pc' = "scan"
    /\ page_num' = 0
    /\ UNCHANGED <<openable, doc, tables, t_idx, structured_results, calls, prev>>
    /\ UNCHANGED api_vars
    /\ UNCHANGED classifier_vars
    /\ UNCHANGED db_vars

\* doc = fitz.open(file_path); tables = []
Open ==
    /\ pc = "open"
    /\ openable
    /\ pc' = "scan"
    /\ tables' = <<>>
    /\ page_num' = 0
    /\ UNCHANGED <<openable, doc, t_idx, structured_results, calls, prev>>
    /\ UNCHANGED api_vars
    /\ UNCHANGED classifier_vars
    /\ UNCHANGED db_vars

\* a faulty OpenFails: the exception is caught and an empty list returned
OpenFails_Swallowed ==
    /\ pc = "open"
    /\ ~openable
    /\ pc' = "done"
    /\ UNCHANGED <<openable, doc, page_num, tables, t_idx, structured_results, calls, prev>>
    /\ UNCHANGED api_vars
    /\ UNCHANGED classifier_vars
    /\ UNCHANGED db_vars

\* fitz.open raises: the exception leaves both functions
OpenFails ==
    /\ pc = "open"
    /\ ~openable
    /\ pc' = "raised"
    /\ UNCHANGED <<openable, doc, page_num, tables, t_idx, structured_results, calls, prev>>
    /\ UNCHANGED api_vars
    /\ UNCHANGED classifier_vars
    /\ UNCHANGED db_vars

\* one iteration of: for page_num, page in enumerate(doc)
ScanPage ==
    /\ pc = "scan"
    /\ page_num < Len(doc)
    /\ tables' = ScanPageTables(page_num, doc[page_num + 1], tables)
    /\ page_num' = page_num + 1
    /\ UNCHANGED <<openable, doc, pc, t_idx, structured_results, calls, prev>>
    /\ UNCHANGED api_vars
    /\ UNCHANGED classifier_vars
    /\ UNCHANGED db_vars

\* return tables; raw_tables = ...; structured_results = []
ReturnTables ==
    /\ pc = "scan"
    /\ page_num = Len(doc)
    /\ pc' = "takeoff"
    /\ structured_results' = <<>>
    /\ t_idx' = 0
    /\ UNCHANGED <<openable, doc, page_num, tables, calls, prev>>
    /\ UNCHANGED api_vars
    /\ UNCHANGED classifier_vars
    /\ UNCHANGED db_vars

\* one iteration of: for table in raw_tables, the header containing "door"
ParseTable ==
    /\ pc = "takeoff"
    /\ t_idx < Len(tables)
    /\ IsDoorHeader(tables[t_idx + 1].header)
    /\ structured_results' =
           Append(structured_results, parse_door_schedule(tables[t_idx + 1]))
    /\ t_idx' = t_idx + 1
    /\ UNCHANGED <<openable, doc, pc, page_num, tables, calls, prev>>
    /\ UNCHANGED api_vars
    /\ UNCHANGED classifier_vars
    /\ UNCHANGED db_vars

\* one iteration of: for table in raw_tables, the header not containing "door"
SkipTable ==
    /\ pc = "takeoff"
    /\ t_idx < Len(tables)
    /\ ~IsDoorHeader(tables[t_idx + 1].header)
    /\ t_idx' = t_idx + 1
    /\ UNCHANGED <<openable, doc, pc, page_num, tables, structured_results, calls, prev>>
    /\ UNCHANGED api_vars
    /\ UNCHANGED classifier_vars
    /\ UNCHANGED db_vars

\* return structured_results
ReturnResults ==
    /\ pc = "takeoff"
    /\ t_idx = Len(tables)
    /\ pc' = "done"
    /\ UNCHANGED <<openable, doc, page_num, tables, t_idx, structured_results, calls, prev>>
    /\ UNCHANGED api_vars
    /\ UNCHANGED classifier_vars
    /\ UNCHANGED db_vars

Next ==
    \/ Open
    \/ OpenFails
    \/ ScanPage
    \/ ReturnTables
    \/ ParseTable
    \/ SkipTable
    \/ ReturnResults

Spec == Init /\ [][Next]_vars

-----------------------------------------------------------------------------
(* extract_structured_takeoff called again on the same document *)

\* the documents of the repeated calls: one line less than n
TwiceDocs(n) == Docs(n - 1)

InitTwice ==
    /\ openable = TRUE
    /\ doc \in TwiceDocs(MaxLines)
    /\ pc = "open"
    /\ page_num = 0
    /\ tables = <<>>
    /\ t_idx = 0
    /\ structured_results = <<>>
    /\ calls = 0
    /\ prev = [tables |-> <<>>, results |-> <<>>]
    /\ ApiIdle
    /\ ClassifierIdle

\* the caller keeps what the call returned and calls again with the same file;
\* nothing of the module is reset between the calls
CallAgain ==
    /\ pc = "done"
    /\ calls + 1 < MaxCalls
    /\ calls' = calls + 1
    /\ prev' = [tables |-> tables, results |-> structured_results]
    /\ pc' = "open"
    /\ UNCHANGED <<openable, doc, page_num, tables, t_idx, structured_results>>
    /\ UNCHANGED api_vars
    /\ UNCHANGED classifier_vars
    /\ UNCHANGED db_vars

NextTwice ==
    \/ Open
    \/ ScanPage
    \/ ReturnTables
    \/ ParseTable
    \/ SkipTable
    \/ ReturnResults
    \/ CallAgain

SpecTwice == InitTwice /\ [][NextTwice]_vars

-----------------------------------------------------------------------------
(* What the claims speak of, stated over the document itself *)

\* extract_tables_from_pdf has just returned its tables
TablesReturned == pc = "takeoff" /\ t_idx = 0

\* the line at position pos = <<page, index>> of the document
LineAt(pos) == doc[pos[1]][pos[2]]

\* the line with its letters in lower case
Lowered(line) == [k \in 1..Len(line) |-> lower(line[k])]

\* the header tokens in lower case
LoweredTokens ==
    { <<"d", "o", "o", "r">>, <<"t", "y", "p", "e">>, <<"q", "t", "y">>,
      <<"s", "i", "z", "e">>, <<"m", "a", "t", "e", "r", "i", "a", "l">> }

\* the line contains w, letter case ignored
ContainsWord(line, w) ==
    LET low == Lowered(line)
    IN  \E a \in 1..(Len(line) - Len(w) + 1) : SubSeq(low, a, a + Len(w) - 1) = w

\* the line contains one of the header tokens, letter case ignored
HasHeaderToken(line) == \E w \in LoweredTokens : ContainsWord(line, w)

\* the positions of the header-matching lines of the document
HeaderPositions ==
    {pos \in UNION {{<<p, i>> : i \in 1..Len(doc[p])} : p \in 1..Len(doc)} :
        HasHeaderToken(LineAt(pos))}

\* pos comes before pos2 in the document
Before(pos, pos2) == pos[1] < pos2[1] \/ (pos[1] = pos2[1] /\ pos[2] < pos2[2])

\* the place of pos among the header positions hp, in document order
Rank(hp, pos) == 1 + Cardinality({q \in hp : Before(q, pos)})

\* the characters of the line that begin a whitespace-separated token
TokenStarts(line) ==
    {k \in 1..Len(line) :
        line[k] \notin Whitespace /\ (k = 1 \/ line[k - 1] \in Whitespace)}

\* the line can be a row: not blank after trimming, and at least two tokens
RowLike(line) ==
    /\ \E k \in 1..Len(line) : line[k] \notin Whitespace
    /\ Cardinality(TokenStarts(line)) >= 2

\* the length of the maximal run of row-like lines after the header at pos
RunAfter(pos) ==
    LET page == doc[pos[1]]
        good == {n \in 0..(Len(page) - pos[2]) :
                    \A k \in 1..n : RowLike(page[pos[2] + k])}
    IN  Max(good)

\* C1: the rows of every table are exactly the maximal run of row-like lines
\* (non-empty after trimming, at least two whitespace-separated tokens) that
\* follows its header on the same page; the line that ends the run and the
\* lines after it are not in the rows.
C1_RowsAreMaximalRun ==
    TablesReturned =>
        LET hp == HeaderPositions
        IN  \A pos \in hp :
            /\ Rank(hp, pos) <= Len(tables)
            /\ LET rows == tables[Rank(hp, pos)].rows
                   page == doc[pos[1]]
               IN  /\ Len(rows) = RunAfter(pos)
                   /\ \A k \in 1..Len(rows) :
                          rows[k] = page[pos[2] + k] /\ RowLike(rows[k])
                   /\ pos[2] + Len(rows) < Len(page) =>
                          ~RowLike(page[pos[2] + Len(rows) + 1])

\* C1 witness: the header is followed by "A B", "", "C D" and the rows are "A B"
C1_Witness ==
    /\ TablesReturned
    /\ doc = << <<LineTypeSize, LineAB, LineBlank, LineCD>> >>
    /\ tables[1].rows = <<LineAB>>

\* C6: one table for each header-matching line, with that line as header, and
\* no table for any other line.
C6_OneTablePerHeaderLine ==
    TablesReturned =>
        LET hp == HeaderPositions
        IN  /\ Len(tables) = Cardinality(hp)
            /\ \A pos \in hp : tables[Rank(hp, pos)].header = LineAt(pos)

\* C6 witness: a document with three header lines, two of them in upper and
\* lower case, among other lines
C6_Witness ==
    /\ TablesReturned
    /\ Len(tables) = 3
    /\ \E t \in 1..3 : tables[t].header = LineDoor
    /\ \E t \in 1..3 : tables[t].header = LineTypeSize
    /\ \E p \in 1..Len(doc) : \E i \in 1..Len(doc[p]) : ~HasHeaderToken(doc[p][i])

\* C7: a header line collected as a row of an earlier table still begins its
\* own table, whose rows are the rows of the earlier table after that line.
C7_OverlappingTables ==
    TablesReturned =>
        LET hp == HeaderPositions
        IN  \A a \in hp : \A b \in hp :
            ( /\ a[1] = b[1]
              /\ a[2] < b[2]
              /\ \A k \in (a[2] + 1)..b[2] : RowLike(doc[a[1]][k]) )
            => LET early == tables[Rank(hp, a)].rows
                   late  == tables[Rank(hp, b)]
                   n     == b[2] - a[2]
               IN  /\ Rank(hp, b) <= Len(tables)
                   /\ Len(early) >= n
                   /\ early[n] = LineAt(b)
                   /\ late.header = LineAt(b)
                   /\ late.rows = SubSeq(early, n + 1, Len(early))

\* C7 witness: "TYPE  size" is a row of the table of "Door" and the header
\* of the next table, and "A B" is a row of both
C7_Witness ==
    /\ TablesReturned
    /\ doc = << <<LineDoor, LineTypeSize, LineAB>> >>
    /\ tables[1].rows = <<LineTypeSize, LineAB>>
    /\ tables[2].header = LineTypeSize
    /\ tables[2].rows = <<LineAB>>

\* C8: the rows of a table are lines after its header line: the header line
\* itself is held by the header field only.
C8_HeaderNotInRows ==
    TablesReturned =>
        LET hp == HeaderPositions
        IN  \A pos \in hp :
            LET t == tables[Rank(hp, pos)]
            IN  /\ t.header = LineAt(pos)
                /\ pos[2] + Len(t.rows) <= Len(doc[pos[1]])
                /\ t.rows = SubSeq(doc[pos[1]], pos[2] + 1, pos[2] + Len(t.rows))

\* C8 witness: a table with rows
C8_Witness ==
    /\ TablesReturned
    /\ \E t \in 1..Len(tables) : Len(tables[t].rows) >= 2

\* C9: tables are listed in the order of their header lines, page by page and
\* top to bottom; page numbers are 1-based and never decrease.
C9_TablesInDocumentOrder ==
    TablesReturned =>
        /\ LET hp == HeaderPositions
           IN  \A pos \in hp :
                   LET t == tables[Rank(hp, pos)]
                   IN  /\ t.page = pos[1]
                       /\ t.header = LineAt(pos)
                       /\ \A k \in 1..Len(t.rows) :
                              t.rows[k] = doc[pos[1]][pos[2] + k]
        /\ \A t \in 1..Len(tables) : \A u \in 1..Len(tables) :
               t < u => tables[t].page <= tables[u].page
        /\ \A t \in 1..Len(tables) : tables[t].page \in 1..Len(doc)

\* C9 witness: a header on page 1 and a different header on page 2
C9_Witness ==
    /\ TablesReturned
    /\ Len(doc) = 2
    /\ Len(tables) = 2
    /\ tables[1].page = 1 /\ tables[1].header = LineDoor
    /\ tables[2].page = 2 /\ tables[2].header = LineTypeSize

-----------------------------------------------------------------------------
(* What the claims about the door schedules speak of *)

\* extract_structured_takeoff has returned its results
ResultsReturned == pc = "done"

\* the tables whose header contains "door", letter case ignored
DoorTables ==
    {t \in 1..Len(tables) : ContainsWord(tables[t].header, <<"d", "o", "o", "r">>)}

\* the place of door table t among the door tables
DoorRank(t) == Cardinality({u \in DoorTables : u <= t})

\* the positions of the row that are not leading or trailing whitespace
Inner(row) ==
    LET ink == {k \in 1..Len(row) : row[k] \notin Whitespace}
    IN  IF ink = {} THEN {} ELSE Min(ink)..Max(ink)

\* the character at k belongs to a separator of the row: a tab, or a
\* whitespace character next to another whitespace character
IsSeparator(row, k) ==
    /\ row[k] \in Whitespace
    /\ \/ row[k] = "\t"
       \/ k > 1 /\ row[k - 1] \in Whitespace
       \/ k < Len(row) /\ row[k + 1] \in Whitespace

\* the tokens of the row, as spans <<first, last>>: the maximal runs of
\* characters of the trimmed row that belong to no separator
TokenSpans(row) ==
    LET inner == Inner(row)
    IN  {sp \in inner \X inner :
            /\ sp[1] <= sp[2]
            /\ \A k \in sp[1]..sp[2] : ~IsSeparator(row, k)
            /\ (sp[1] - 1) \in inner => IsSeparator(row, sp[1] - 1)
            /\ (sp[2] + 1) \in inner => IsSeparator(row, sp[2] + 1)}

\* the text of a span of the row
SpanText(row, sp) == SubSeq(row, sp[1], sp[2])

\* the spans of the row's tokens that consist solely of decimal digits
DigitSpans(row) ==
    {sp \in TokenSpans(row) : \A k \in sp[1]..sp[2] : row[k] \in Digits}

\* the number a token of decimal digits writes
NumberOf(tok) ==
    CHOOSE n \in 0..(10 ^ Len(tok) - 1) :
        \A j \in 0..(Len(tok) - 1) :
            DigitValue(tok[Len(tok) - j]) = (n \div (10 ^ j)) % 10

\* what a row adds: the number of its first digits-only token, 0 without one
RowValue(row) ==
    LET ds == DigitSpans(row)
    IN  IF ds = {} THEN 0
        ELSE NumberOf(SpanText(row, CHOOSE sp \in ds : \A o \in ds : sp[1] <= o[1]))

\* the sum of what the rows add
RECURSIVE SumOfRows(_)
SumOfRows(rows) ==
    IF rows = <<>> THEN 0 ELSE RowValue(Head(rows)) + SumOfRows(Tail(rows))

\* the tokens of the row that match a size pattern, in the order of the row
RowSizes(row) ==
    LET ms == {sp \in TokenSpans(row) : IsSize(SpanText(row, sp))}
    IN  [i \in 1..Cardinality(ms) |->
            SpanText(row, CHOOSE sp \in ms :
                              Cardinality({o \in ms : o[1] < sp[1]}) = i - 1)]

\* the size tokens of the rows, row after row
RECURSIVE SizesOfRows(_)
SizesOfRows(rows) ==
    IF rows = <<>> THEN <<>> ELSE RowSizes(Head(rows)) \o SizesOfRows(Tail(rows))

\* the size 3'0"x7'0"
SizeThreeBySeven == <<"3", "'", "0", "\"", "x", "7", "'", "0", "\"">>

C3_SingleSpacedRowsCount ==
    ResultsReturned =>
        \A t \in DoorTables :
            tables[t].rows \in {<<RowQtyFirst>>, <<RowQtySecond>>}
                => structured_results[DoorRank(t)].count = 2

\* C3 as amended: a row whose fields are separated by two or more spaces adds
\* its first digits-only token and ignores the later ones (2 for
\* 2  HM-1  3'0"x7'0" and for HM-1  2  3'0"x7'0"  4); the same rows written
\* with single spaces are one token each and add nothing.
C3_WideRowsCount ==
    ResultsReturned =>
        \A t \in DoorTables :
            LET rows == tables[t].rows
                wide == {k \in 1..Len(rows) : rows[k] \in {RowQtyFirstWide, RowTwoNumbers}}
                tight == {k \in 1..Len(rows) : rows[k] \in {RowQtyFirst, RowQtySecond}}
            IN  wide \cup tight = 1..Len(rows)
                    => structured_results[DoorRank(t)].count = 2 * Cardinality(wide)

\* C3 witness: one row of each kind, the count being 2
C3_Witness ==
    /\ ResultsReturned
    /\ doc = << <<LineDoorQty, RowTwoNumbers, RowQtySecond>> >>
    /\ structured_results[1].count = 2

\* the rows of a table that have a digits-only token
CountedRows(rows) == {k \in 1..Len(rows) : DigitSpans(rows[k]) # {}}

\* C4 as stated: the count is the number of the first digits-only token over
\* the rows of the table, the later rows adding nothing.
C4_CountIsFirstMatch ==
    ResultsReturned =>
        \A t \in DoorTables :
            LET rows == tables[t].rows
            IN  structured_results[DoorRank(t)].count =
                    IF CountedRows(rows) = {} THEN 0
                    ELSE RowValue(rows[Min(CountedRows(rows))])

\* C4 as amended: first match, then stop, holds within a row only: the count
\* is the number of the first digits-only token of the first row that has one
\* plus what every later row adds in the same way, and 0 when no row has one.
C4_CountIsFirstMatchPerRow ==
    ResultsReturned =>
        \A t \in DoorTables :
            LET rows == tables[t].rows
                counted == CountedRows(rows)
            IN  IF counted = {}
                THEN structured_results[DoorRank(t)].count = 0
                ELSE structured_results[DoorRank(t)].count =
                         RowValue(rows[Min(counted)])
                         + SumOfRows(SubSeq(rows, Min(counted) + 1, Len(rows)))

\* C4 witness: the second row adds to the count after the first row has
\* supplied the first match
C4_Witness ==
    /\ ResultsReturned
    /\ doc = << <<LineDoorQty, RowIndented, RowNoSize>> >>
    /\ structured_results[1].count = 8

\* C5: sizes holds the tokens of the rows that match a size pattern and no
\* others, verbatim, once per matching token, in row order then token order,
\* duplicates kept; the row HM-1  3'0"x7'0"  Hollow Metal yields 3'0"x7'0".
C5_SizesAreMatchingTokens ==
    ResultsReturned =>
        \A t \in DoorTables :
            LET rows == tables[t].rows
                sizes == structured_results[DoorRank(t)].sizes
            IN  /\ sizes = SizesOfRows(rows)
                /\ (\E k \in 1..Len(rows) : rows[k] = RowHollowMetal)
                       => \E i \in 1..Len(sizes) : sizes[i] = SizeThreeBySeven

\* C5 witness: the same size in two rows is kept twice
C5_Witness ==
    /\ ResultsReturned
    /\ doc = << <<LineDoorQty, RowHollowMetal, RowTwoNumbers>> >>
    /\ structured_results[1].sizes = <<SizeThreeBySeven, SizeThreeBySeven>>

\* C10: one result for each table whose header contains "door" and none for
\* the other tables, in the order of the tables, each with scope "Doors" and
\* the page number of its table.
C10_OneResultPerDoorTable ==
    ResultsReturned =>
        /\ Len(structured_results) = Cardinality(DoorTables)
        /\ \A t \in DoorTables :
               /\ structured_results[DoorRank(t)].scope = "Doors"
               /\ structured_results[DoorRank(t)].source_page = tables[t].page

\* C10 witness: a table without "door" in its header on page 1 gets no
\* result, and the door table of page 2 gets the only one
C10_Witness ==
    /\ ResultsReturned
    /\ Len(tables) = 2
    /\ tables[1].header = LineTypeSize /\ tables[1].page = 1
    /\ tables[2].header = LineDoor /\ tables[2].page = 2
    /\ Len(structured_results) = 1
    /\ structured_results[1].source_page = 2

-----------------------------------------------------------------------------
(* Both quote notations, empty documents, failures and repeated calls *)

\* the token with its typographic quotes written as straight quotes
Straightened(tok) ==
    [k \in 1..Len(tok) |->
        IF tok[k] = "RSQUO" THEN "'" ELSE IF tok[k] = "RDQUO" THEN "\"" ELSE tok[k]]

\* C11: a token is in sizes whenever it is a dimension in either notation:
\* every token whose straight-quote writing matches the straight pattern is
\* accepted, whether it is written with straight or with typographic quotes.
C11_EitherNotationAccepted ==
    ResultsReturned =>
        \A t \in DoorTables :
            \A k \in 1..Len(tables[t].rows) :
                \A sp \in TokenSpans(tables[t].rows[k]) :
                    LET tok == SpanText(tables[t].rows[k], sp)
                        sizes == structured_results[DoorRank(t)].sizes
                    IN  MatchStraight(Straightened(tok))
                            => \E i \in 1..Len(sizes) : sizes[i] = tok

\* C12: a document without a header line (its text empty or not) raises
\* nothing and gives no table and no result.
C12_NoHeaderNoTables ==
    (openable /\ (TablesReturned \/ pc \in {"done", "raised"}) /\ HeaderPositions = {})
        => /\ pc # "raised"
           /\ tables = <<>>
           /\ structured_results = <<>>

\* C12 witness: the one page of the document has no text at all
C12_Witness ==
    /\ pc = "done"
    /\ doc = << <<>> >>
    /\ tables = <<>>
    /\ structured_results = <<>>

\* C13: when the file cannot be opened the call ends in the exception of
\* fitz.open: nothing is scanned and neither list is returned.
C13_OpenFailurePropagates ==
    ~openable =>
        /\ pc \in {"open", "raised"}
        /\ page_num = 0
        /\ tables = <<>>
        /\ structured_results = <<>>

\* C13 witness: the exception has left extract_structured_takeoff
C13_Witness == ~openable /\ pc = "raised"

\* C15: a call on the same document returns the tables and the results the
\* call before it returned.
C15_SameInputSameTables ==
    /\ (calls > 0 /\ TablesReturned) => tables = prev.tables
    /\ (calls > 0 /\ ResultsReturned)
           => tables = prev.tables /\ structured_results = prev.results

\* C15 witness: the second call has returned two tables and a result
C15_Witness ==
    /\ calls = 1
    /\ ResultsReturned
    /\ Len(tables) >= 2
    /\ Len(structured_results) >= 1

-----------------------------------------------------------------------------
(* api.py: uploaded files, paths and responses *)

\* the hexadecimal digits of a uuid
HexChars ==
    <<"0", "1", "2", "3", "4", "5", "6", "7", "8", "9", "a", "b", "c", "d", "e", "f">>

\* str(uuid.uuid4()): the n-th value drawn, never one drawn before; the model
\* writes a uuid with two hexadecimal digits
uuid4(n) == <<HexChars[((n \div 16) % 16) + 1], HexChars[(n % 16) + 1]>>

\* UPLOAD_DIR = "./temp_uploads"
UPLOAD_DIR == <<".", "/", "t", "e", "m", "p", "_", "u", "p", "l", "o", "a", "d", "s">>

\* os.path.join(UPLOAD_DIR, file_id)
path_join(dir, name) == dir \o <<"/">> \o name

\* s.lower()
lower_str(s) == [k \in 1..Len(s) |-> lower(s[k])]

\* s.endswith(suffix)
endswith(s, suffix) ==
    /\ Len(suffix) <= Len(s)
    /\ SubSeq(s, Len(s) - Len(suffix) + 1, Len(s)) = suffix

ExtPdf == <<".", "p", "d", "f">>
ExtXlsx == <<".", "x", "l", "s", "x">>
ExtDocx == <<".", "d", "o", "c", "x">>

\* the bytes of a PDF whose pages print the given lines
PdfContent(pages) == [pdf |-> TRUE, pages |-> pages, raw |-> <<"%", "P", "D", "F">>]

\* bytes that are no PDF and decode to the given text
TextContent(text) == [pdf |-> FALSE, pages |-> <<>>, raw |-> text]

\* the file names of the uploads
NameNone == <<>>
NamePdf == <<"a", ".", "p", "d", "f">>
NameUpperPdf == <<"B", ".", "P", "D", "F">>
NameTxt == <<"n", ".", "t", "x", "t">>
NameXlsx == <<"q", ".", "x", "l", "s", "x">>
NameDocx == <<"w", ".", "d", "o", "c", "x">>

\* the response to a request: op and the request's fields, the status code
\* that reaches the client, and the status of the HTTPException raised in the
\* handler (0 when none was raised)
Response(op, status, raised) ==
    [op |-> op, status |-> status, raised |-> raised, id |-> <<>>, files |-> <<>>,
     methods |-> <<>>, open_failed |-> FALSE, text |-> <<>>, replies |-> <<>>, body |-> <<>>]

\* the dict d with d[k] = v
Put(d, k, v) == [x \in DOMAIN d \cup {k} |-> IF x = k THEN v ELSE d[x]]

\* the dict d without the key k
Drop(d, k) == [x \in DOMAIN d \ {k} |-> d[x]]

-----------------------------------------------------------------------------
(* api.py: upload_file, get_file, delete_file *)

\* upload_file: the HTTPException(400) is raised inside the try and caught by
\* "except Exception", which raises HTTPException(500) in its place
upload_file(file) ==
    IF file.filename = <<>>
    THEN /\ last' = [Response("upload_file", 500, 400) EXCEPT !.files = <<file>>]
         /\ UNCHANGED <<files_storage, disk, next_id, deleted>>
    ELSE LET file_id == uuid4(next_id)
             path == path_join(UPLOAD_DIR, file_id)
         IN  /\ next_id' = next_id + 1
             /\ disk' = Put(disk, path, file.content)
             /\ files_storage' = Put(files_storage, file_id, path)
             /\ last' = [Response("upload_file", 200, 0) EXCEPT
                            !.id = file_id, !.files = <<file>>]
             /\ UNCHANGED deleted

\* get_file: both 404 are raised before the try
get_file(file_id) ==
    /\ last' = [Response("get_file",
                         IF file_id \notin DOMAIN files_storage THEN 404
                         ELSE IF files_storage[file_id] \notin DOMAIN disk THEN 404
                         ELSE 200,
                         IF file_id \in DOMAIN files_storage
                            /\ files_storage[file_id] \in DOMAIN disk THEN 0 ELSE 404)
                   EXCEPT !.id = file_id]
    /\ UNCHANGED <<files_storage, disk, next_id, deleted>>

\* a faulty delete_file: the entry is deleted before os.remove is tried
delete_file_EntryFirst(file_id, removed) ==
    IF file_id \notin DOMAIN files_storage
    THEN /\ last' = [Response("delete_file", 404, 404) EXCEPT !.id = file_id]
         /\ UNCHANGED <<files_storage, disk, next_id, deleted>>
    ELSE IF files_storage[file_id] \notin DOMAIN disk
    THEN /\ last' = [Response("delete_file", 404, 404) EXCEPT !.id = file_id]
         /\ UNCHANGED <<files_storage, disk, next_id, deleted>>
    ELSE IF removed
    THEN /\ disk' = Drop(disk, files_storage[file_id])
         /\ files_storage' = Drop(files_storage, file_id)
         /\ deleted' = deleted \cup {file_id}
         /\ last' = [Response("delete_file", 200, 0) EXCEPT !.id = file_id]
         /\ UNCHANGED next_id
    ELSE /\ files_storage' = Drop(files_storage, file_id)
         /\ last' = [Response("delete_file", 500, 0) EXCEPT !.id = file_id]
         /\ UNCHANGED <<disk, next_id, deleted>>

\* delete_file: both 404 are raised before the try; os.remove(path) removes
\* the file (removed) or raises, and then the entry is kept and 500 answered
delete_file(file_id, removed) ==
    IF file_id \notin DOMAIN files_storage
    THEN /\ last' = [Response("delete_file", 404, 404) EXCEPT !.id = file_id]
         /\ UNCHANGED <<files_storage, disk, next_id, deleted>>
    ELSE IF files_storage[file_id] \notin DOMAIN disk
    THEN /\ last' = [Response("delete_file", 404, 404) EXCEPT !.id = file_id]
         /\ UNCHANGED <<files_storage, disk, next_id, deleted>>
    ELSE IF removed
    THEN /\ disk' = Drop(disk, files_storage[file_id])
         /\ files_storage' = Drop(files_storage, file_id)
         /\ deleted' = deleted \cup {file_id}
         /\ last' = [Response("delete_file", 200, 0) EXCEPT !.id = file_id]
         /\ UNCHANGED next_id
    ELSE /\ last' = [Response("delete_file", 500, 0) EXCEPT !.id = file_id]
         /\ UNCHANGED <<files_storage, disk, next_id, deleted>>

\* the uploads of the file endpoints
FileUploads ==
    { [filename |-> NameNone, content |-> TextContent(<<"h", "i">>)],
      [filename |-> NamePdf, content |-> PdfContent(<< <<LineAB>> >>)] }

\* the file ids a client may ask for: those drawn so far and one never drawn
KnownIds == {uuid4(n) : n \in 0..next_id}

UploadFile ==
    /\ nreq < MaxRequests
    /\ nreq' = nreq + 1
    /\ \E file \in FileUploads : upload_file(file)
    /\ UNCHANGED parser_vars
    /\ UNCHANGED classifier_vars
    /\ UNCHANGED db_vars

GetFile ==
    /\ nreq < MaxRequests
    /\ nreq' = nreq + 1
    /\ \E file_id \in KnownIds : get_file(file_id)
    /\ UNCHANGED parser_vars
    /\ UNCHANGED classifier_vars
    /\ UNCHANGED db_vars

DeleteFile ==
    /\ nreq < MaxRequests
    /\ nreq' = nreq + 1
    /\ \E file_id \in KnownIds : \E removed \in BOOLEAN : delete_file(file_id, removed)
    /\ UNCHANGED parser_vars
    /\ UNCHANGED classifier_vars
    /\ UNCHANGED db_vars

\* a file under UPLOAD_DIR is removed by something else than the server
FileVanishes ==
    /\ \E path \in DOMAIN disk : disk' = Drop(disk, path)
    /\ UNCHANGED <<files_storage, next_id, nreq, last, deleted>>
    /\ UNCHANGED parser_vars
    /\ UNCHANGED classifier_vars
    /\ UNCHANGED db_vars

\* the server is running and the parser is not in use
ParserIdle ==
    /\ openable = FALSE
    /\ doc = <<>>
    /\ pc = "idle"
    /\ page_num = 0
    /\ tables = <<>>
    /\ t_idx = 0
    /\ structured_results = <<>>
    /\ calls = 0
    /\ prev = [tables |-> <<>>, results |-> <<>>]

InitApi == ParserIdle /\ ApiIdle /\ ClassifierIdle

NextFiles ==
    \/ UploadFile
    \/ GetFile
    \/ DeleteFile
    \/ FileVanishes

SpecFiles == InitApi /\ [][NextFiles]_vars

-----------------------------------------------------------------------------
(* api.py: storing the uploads of a request and extracting their text *)

\* the files of a request up to the first one without a filename
RECURSIVE named_prefix(_)
named_prefix(files) ==
    IF files = <<>> \/ Head(files).filename = <<>>
    THEN <<>>
    ELSE <<Head(files)>> \o named_prefix(Tail(files))

\* the files of a request that have a filename ("if not file.filename: continue")
RECURSIVE named_only(_)
named_only(files) ==
    IF files = <<>> THEN <<>>
    ELSE IF Head(files).filename = <<>> THEN named_only(Tail(files))
    ELSE <<Head(files)>> \o named_only(Tail(files))

\* the upload loop: each file gets a fresh uuid and is written to
\* UPLOAD_DIR/<uuid>; file_ids in the order of the files
file_ids(files) == [k \in 1..Len(files) |-> uuid4(next_id + k - 1)]

\* the files and the entries of files_storage after the upload loop stored
\* these files
write_files(files) ==
    LET ids == file_ids(files)
        at(x) == CHOOSE k \in 1..Len(files) : ids[k] = x
        path(k) == path_join(UPLOAD_DIR, ids[k])
        at_path(q) == CHOOSE k \in 1..Len(files) : path(k) = q
    IN  /\ disk' = [q \in DOMAIN disk \cup {path(k) : k \in 1..Len(files)} |->
                       IF \E k \in 1..Len(files) : path(k) = q
                       THEN files[at_path(q)].content ELSE disk[q]]
        /\ files_storage' =
               [x \in DOMAIN files_storage \cup {ids[k] : k \in 1..Len(files)} |->
                   IF \E k \in 1..Len(files) : ids[k] = x
                   THEN path(at(x)) ELSE files_storage[x]]

\* the state after the upload loop of a handler that draws no other uuid
store_files(files) ==
    /\ next_id' = next_id + Len(files)
    /\ write_files(files)

\* os.path.basename(path)
basename(path) ==
    LET slashes == {k \in 1..Len(path) : path[k] = "/"}
    IN  IF slashes = {} THEN path ELSE SubSeq(path, Max(slashes) + 1, Len(path))

\* [page.get_text() for page in doc]
page_texts(pages) == [k \in 1..Len(pages) |-> get_text(pages[k])]

ExcelNote == <<"(", "E", "x", "c", "e", "l", " ", "f", "i", "l", "e", " ", "u", "p", "l", "o", "a", "d", "e", "d", ":", " ">>
WordNote == <<"(", "W", "o", "r", "d", " ", "d", "o", "c", " ", "u", "p", "l", "o", "a", "d", "e", "d", ":", " ">>

\* the branch the extraction loop takes for the file stored at path, and the
\* parts it appends to text_parts; office is TRUE in full_scan, which has the
\* .xlsx and .docx branches; fitz.open raises on bytes that are no PDF
extract_parts(path, content, office) ==
    IF endswith(lower_str(path), ExtPdf)
    THEN IF content.pdf
         THEN [method |-> "pdf", parts |-> page_texts(content.pages), failed |-> FALSE]
         ELSE [method |-> "pdf", parts |-> <<>>, failed |-> TRUE]
    ELSE IF office /\ endswith(lower_str(path), ExtXlsx)
    THEN [method |-> "xlsx", parts |-> <<ExcelNote \o basename(path) \o <<")">> >>,
          failed |-> FALSE]
    ELSE IF office /\ endswith(lower_str(path), ExtDocx)
    THEN [method |-> "docx", parts |-> <<WordNote \o basename(path) \o <<")">> >>,
          failed |-> FALSE]
    ELSE [method |-> "decode", parts |-> <<content.raw>>, failed |-> FALSE]

\* the extraction loop over file_ids: the branch taken for each file, the
\* text_parts collected, and whether fitz.open raised (the loop ends there)
RECURSIVE text_parts(_, _, _, _)
text_parts(files, k, office, acc) ==
    IF k > Len(files) THEN acc
    ELSE LET e == extract_parts(path_join(UPLOAD_DIR, file_ids(files)[k]),
                                files[k].content, office)
         IN  IF e.failed
             THEN [methods |-> Append(acc.methods, e.method), parts |-> acc.parts,
                   failed |-> TRUE]
             ELSE text_parts(files, k + 1, office,
                             [methods |-> Append(acc.methods, e.method),
                              parts |-> acc.parts \o e.parts, failed |-> FALSE])

NoParts == [methods |-> <<>>, parts |-> <<>>, failed |-> FALSE]

\* sep.join(parts)
RECURSIVE join(_, _)
join(parts, sep) ==
    IF parts = <<>> THEN <<>>
    ELSE IF Len(parts) = 1 THEN Head(parts)
    ELSE Head(parts) \o sep \o join(Tail(parts), sep)

\* "\n\n"
BlankLine == <<"\n", "\n">>

\* str.strip() of a text with line ends
strip_text(s) ==
    LET keep == {k \in 1..Len(s) : s[k] \notin Whitespace \cup {"\n"}}
    IN  IF keep = {} THEN <<>> ELSE SubSeq(s, Min(keep), Max(keep))

\* what the model's reply is to the handler: a reply the handler can use, a
\* reply it cannot parse, an empty reply, or an empty list
GptReplies == {"valid", "unparsable", "empty", "empty_list"}

-----------------------------------------------------------------------------
(* api.py: save_profile *)

\* save_profile: the HTTPException(400) is raised inside the try; saved is
\* whether the sqlite statements went through
save_profile(user_id, saved) ==
    /\ last' = [Response("save_profile",
                         IF user_id = <<>> THEN 500 ELSE IF saved THEN 200 ELSE 500,
                         IF user_id = <<>> THEN 400 ELSE 0)
                   EXCEPT !.id = user_id]
    /\ UNCHANGED <<files_storage, disk, next_id, deleted>>

-----------------------------------------------------------------------------
(* api.py: generate_summary, generate_divisions *)

\* generate_summary: "if not files" is checked before the try; a file without
\* a filename is skipped; every exception of the try, the HTTPException(400)
\* for no readable text included, is answered with JSONResponse(500)
generate_summary(files, gpt) ==
    IF files = <<>>
    THEN /\ last' = Response("generate_summary", 400, 400)
         /\ UNCHANGED <<files_storage, disk, next_id, deleted>>
    ELSE LET stored == named_only(files)
             t == text_parts(stored, 1, FALSE, NoParts)
             document_text == strip_text(join(t.parts, BlankLine))
             outcome == IF t.failed THEN <<500, 0>>
                        ELSE IF document_text = <<>> THEN <<500, 400>>
                        ELSE IF gpt = "valid" THEN <<200, 0>>
                        ELSE IF gpt = "empty_list" THEN <<500, 0>>
                        ELSE <<500, 500>>
         IN  /\ store_files(stored)
             /\ last' = [Response("generate_summary", outcome[1], outcome[2]) EXCEPT
                            !.files = files, !.methods = t.methods,
                            !.open_failed = t.failed,
                            !.text = IF t.failed THEN <<>> ELSE document_text]
             /\ UNCHANGED deleted

\* generate_divisions: "if not files" is checked before the try; a file
\* without a filename raises HTTPException(400) inside the try, after the
\* files before it were stored; every exception is answered 500
generate_divisions(files, gpt) ==
    IF files = <<>>
    THEN /\ last' = Response("generate_divisions", 400, 400)
         /\ UNCHANGED <<files_storage, disk, next_id, deleted>>
    ELSE LET stored == named_prefix(files)
             rejected == Len(stored) < Len(files)
             t == IF rejected THEN NoParts ELSE text_parts(stored, 1, FALSE, NoParts)
             document_text == join(t.parts, BlankLine)
             outcome == IF rejected THEN <<500, 400>>
                        ELSE IF t.failed THEN <<500, 0>>
                        ELSE IF gpt \in {"valid", "empty_list"} THEN <<200, 0>>
                        ELSE <<500, 0>>
         IN  /\ store_files(stored)
             /\ last' = [Response("generate_divisions", outcome[1], outcome[2]) EXCEPT
                            !.files = files, !.methods = t.methods,
                            !.open_failed = t.failed,
                            !.text = IF t.failed THEN <<>> ELSE document_text]
             /\ UNCHANGED deleted

-----------------------------------------------------------------------------
(* api.py: the takeoff items and their merge *)

\* CSI_DIVISIONS.items(): the division ids in insertion order; the model keeps
\* two of the divisions of the table
CSI_DIVISIONS == <<"03", "08">>

\* a reply of the model for a takeoff prompt: a JSON list of items, or text
\* json.loads cannot parse
Reply(items) == [kind |-> "valid", items |-> items]
Unparsable == [kind |-> "unparsable", items |-> <<>>]

\* the clock of the server, datetime.utcnow(): the model's time is the number
\* of the request
utcnow == nreq + 1

\* the loop "item['userEdited'] = False; item['id'] = str(uuid.uuid4());
\* item['createdAt'] = ..." over the items of a reply; first is the number of
\* uuid4() values drawn before it
add_metadata(items, first) ==
    [k \in 1..Len(items) |->
        [items[k] EXCEPT !.userEdited = FALSE, !.id = uuid4(first + k - 1),
                         !.createdAt = utcnow]]

\* a faulty existing_takeoff: the rows of the project are fetched, and one of
\* them is a row the user has not edited
existing_takeoff_Fetched ==
    << [division |-> "03", description |-> <<"S", "l", "a", "b">>, quantity |-> 1,
        unit |-> "SF", unitCost |-> 7, modifier |-> 0, userEdited |-> FALSE,
        id |-> <<"e", "1">>, createdAt |-> 0] >>

\* existing_takeoff = []
existing_takeoff == <<>>

\* the merge loop over the new items: an item with no match in existing is
\* appended; an item whose match is not user-edited takes the match's id and
\* createdAt, replaces it in updated and, when unitCost or modifier differ,
\* is written to user_pricing_overrides; an item whose match is user-edited is
\* skipped
RECURSIVE merge(_, _, _, _, _, _)
merge(existing, new_items, k, updated, overrides, user_id) ==
    IF k > Len(new_items)
    THEN [takeoff |-> updated, overrides |-> overrides]
    ELSE LET new_item == new_items[k]
             found == {j \in 1..Len(existing) :
                          /\ lower_str(strip(existing[j].description)) =
                                 lower_str(strip(new_item.description))
                          /\ existing[j].division = new_item.division}
         IN  IF found = {}
             THEN merge(existing, new_items, k + 1, Append(updated, new_item),
                        overrides, user_id)
             ELSE LET match == existing[Min(found)]
                      item == [new_item EXCEPT !.id = match.id,
                                               !.createdAt = match.createdAt]
                  IN  IF ~match.userEdited
                      THEN merge(existing, new_items, k + 1,
                                 [j \in 1..Len(updated) |->
                                     IF updated[j].id = match.id THEN item
                                     ELSE updated[j]],
                                 IF item.unitCost # match.unitCost
                                    \/ item.modifier # match.modifier
                                 THEN Put(overrides,
                                          <<user_id, item.division, item.description>>,
                                          [unit |-> item.unit, unit_cost |-> item.unitCost,
                                           source |-> "gpt", created_at |-> utcnow])
                                 ELSE overrides,
                                 user_id)
                      ELSE merge(existing, new_items, k + 1, updated, overrides, user_id)

\* updated_takeoff = existing_takeoff.copy(), then the merge loop
merge_takeoff(new_items, user_id) ==
    merge(existing_takeoff, new_items, 1, existing_takeoff, user_pricing_overrides,
          user_id)

\* the loop over CSI_DIVISIONS of full_scan: the items of each reply that is a
\* list with items get their metadata and are appended to all_takeoff_items; a
\* reply that cannot be parsed is logged and passed over
RECURSIVE all_takeoff_items(_, _, _, _)
all_takeoff_items(replies, d, first, acc) ==
    IF d > Len(CSI_DIVISIONS) THEN acc
    ELSE IF replies[d].kind = "valid"
    THEN all_takeoff_items(replies, d + 1, first + Len(replies[d].items),
                           acc \o add_metadata(replies[d].items, first))
    ELSE all_takeoff_items(replies, d + 1, first, acc)

-----------------------------------------------------------------------------
(* api.py: extract_takeoff and full_scan *)

\* extract_takeoff: every check is inside the try, and "except Exception"
\* answers 500 for the HTTPException(400) too; an empty list from the model is
\* answered with JSONResponse(400); else the items get their metadata and are
\* merged into existing_takeoff
extract_takeoff(user_id, files, gpt, items) ==
    IF user_id = <<>> \/ files = <<>>
    THEN /\ last' = [Response("extract_takeoff", 500, 400) EXCEPT
                        !.id = user_id, !.files = files]
         /\ UNCHANGED <<files_storage, disk, next_id, deleted, user_pricing_overrides>>
    ELSE LET stored == named_prefix(files)
             rejected == Len(stored) < Len(files)
             parsed == IF gpt = "valid" THEN items ELSE <<>>
         IN  \E t \in {IF rejected THEN NoParts ELSE text_parts(stored, 1, FALSE, NoParts)} :
             \E merged \in {merge_takeoff(add_metadata(parsed, next_id + Len(stored)), user_id)} :
             LET document_text == join(t.parts, BlankLine)
                 asked == ~rejected /\ ~t.failed
                 merging == asked /\ gpt = "valid" /\ parsed # <<>>
                 outcome == IF rejected THEN <<500, 400>>
                            ELSE IF t.failed THEN <<500, 0>>
                            ELSE IF merging THEN <<200, 0>>
                            ELSE IF gpt \in {"valid", "empty_list"} THEN <<400, 0>>
                            ELSE <<500, 0>>
             IN  /\ write_files(stored)
                 /\ next_id' = next_id + Len(stored) + (IF merging THEN Len(parsed) ELSE 0)
                 /\ user_pricing_overrides' =
                        IF merging THEN merged.overrides ELSE user_pricing_overrides
                 /\ last' = [Response("extract_takeoff", outcome[1], outcome[2]) EXCEPT
                                !.id = user_id, !.files = files, !.methods = t.methods,
                                !.open_failed = t.failed,
                                !.text = IF t.failed THEN <<>> ELSE document_text,
                                !.replies = IF asked /\ gpt = "valid" THEN <<Reply(items)>>
                                            ELSE IF asked THEN <<Unparsable>> ELSE <<>>,
                                !.body = IF merging THEN merged.takeoff ELSE <<>>]
                 /\ UNCHANGED deleted

\* full_scan: the checks are inside the try, and "except HTTPException: raise
\* e" lets each HTTPException through with its own status; a title/summary
\* reply that cannot be used raises HTTPException(400); then one takeoff
\* reply per division is read; no takeoff item at all is answered with
\* JSONResponse(400); else the items are merged into existing_takeoff
full_scan(user_id, files, gpt, replies) ==
    IF user_id = <<>> \/ files = <<>>
    THEN /\ last' = [Response("full_scan", 400, 400) EXCEPT
                        !.id = user_id, !.files = files]
         /\ UNCHANGED <<files_storage, disk, next_id, deleted, user_pricing_overrides>>
    ELSE LET stored == named_prefix(files)
             rejected == Len(stored) < Len(files)
         IN  \E t \in {IF rejected THEN NoParts ELSE text_parts(stored, 1, TRUE, NoParts)} :
             LET asked == ~rejected /\ ~t.failed /\ gpt = "valid" IN
             \E items \in {IF asked
                           THEN all_takeoff_items(replies, 1, next_id + Len(stored), <<>>)
                           ELSE <<>>} :
             \E merged \in {merge_takeoff(items, user_id)} :
             LET document_text == join(t.parts, BlankLine)
                 merging == asked /\ items # <<>>
                 outcome == IF rejected THEN <<400, 400>>
                            ELSE IF t.failed THEN <<500, 0>>
                            ELSE IF gpt # "valid" THEN <<400, 400>>
                            ELSE IF merging THEN <<200, 0>>
                            ELSE <<400, 0>>
             IN  /\ write_files(stored)
                 /\ next_id' = next_id + Len(stored) + Len(items)
                 /\ user_pricing_overrides' =
                        IF merging THEN merged.overrides ELSE user_pricing_overrides
                 /\ last' = [Response("full_scan", outcome[1], outcome[2]) EXCEPT
                                !.id = user_id, !.files = files, !.methods = t.methods,
                                !.open_failed = t.failed,
                                !.text = IF t.failed THEN <<>> ELSE document_text,
                                !.replies = IF asked THEN replies ELSE <<>>,
                                !.body = IF merging THEN merged.takeoff ELSE <<>>]
                 /\ UNCHANGED deleted

-----------------------------------------------------------------------------
(* api.py: parse_spec *)

\* text.splitlines(): the lines of the text, without a last empty line
splitlines(text) ==
    LET pieces == split_nl(text)
    IN  IF pieces[Len(pieces)] = <<>> THEN SubSeq(pieces, 1, Len(pieces) - 1)
        ELSE pieces

\* s.startswith(prefix)
startswith(s, prefix) ==
    /\ Len(prefix) <= Len(s)
    /\ SubSeq(s, 1, Len(prefix)) = prefix

\* "SECTION"
SectionWord == <<"S", "E", "C", "T", "I", "O", "N">>

\* s.split(" ", 2): cut at the first two single spaces
split_space_2(s) ==
    LET spaces == {k \in 1..Len(s) : s[k] = " "}
    IN  IF spaces = {} THEN <<s>>
        ELSE LET a == Min(spaces)
                 later == {k \in spaces : k > a}
             IN  IF later = {}
                 THEN <<SubSeq(s, 1, a - 1), SubSeq(s, a + 1, Len(s))>>
                 ELSE LET b == Min(later)
                      IN  <<SubSeq(s, 1, a - 1), SubSeq(s, a + 1, b - 1),
                            SubSeq(s, b + 1, Len(s))>>

\* the lines of all pages in the order of the two nested loops
RECURSIVE page_lines(_)
page_lines(pages) ==
    IF pages = <<>> THEN <<>>
    ELSE splitlines(get_text(Head(pages))) \o page_lines(Tail(pages))

\* the locals of parse_spec before the loop; None and "" are both falsy and
\* are both written <<>>
NoSection ==
    [sections |-> <<>>, section_text |-> <<>>, current_section |-> <<>>,
     current_title |-> <<>>]

\* sections.append({...}) when "current_section and section_text"
flush_section(st) ==
    IF st.current_section # <<>> /\ st.section_text # <<>>
    THEN Append(st.sections,
                [section |-> st.current_section, title |-> st.current_title,
                 text |-> strip_text(st.section_text)])
    ELSE st.sections

\* the body of the loop over the lines: a line starting with SECTION flushes
\* the section collected so far and, when it has three parts, names the new
\* one (else current_section and current_title stay); any other line is
\* collected once a section is named
section_line(st, line) ==
    IF startswith(strip(line), SectionWord)
    THEN LET flushed == st.current_section # <<>> /\ st.section_text # <<>>
             parts == split_space_2(strip(line))
         IN  [sections |-> flush_section(st),
              section_text |-> IF flushed THEN <<>> ELSE st.section_text,
              current_section |-> IF Len(parts) >= 3 THEN strip(parts[2])
                                  ELSE st.current_section,
              current_title |-> IF Len(parts) >= 3 THEN strip(parts[3])
                                ELSE st.current_title]
    ELSE IF st.current_section # <<>>
    THEN [st EXCEPT !.section_text = @ \o strip(line) \o <<"\n">>]
    ELSE st

\* the loop over the lines and the flush after it
RECURSIVE scan_sections(_, _, _)
scan_sections(lines, k, st) ==
    IF k > Len(lines) THEN flush_section(st)
    ELSE scan_sections(lines, k + 1, section_line(st, lines[k]))

\* parse_spec: a filename that does not end in .pdf is answered with
\* JSONResponse(400); fitz.open raising, like every exception, is answered
\* with JSONResponse(500); else the sections are returned
parse_spec(file) ==
    /\ last' =
          IF ~endswith(lower_str(file.filename), ExtPdf)
          THEN [Response("parse_spec", 400, 0) EXCEPT !.files = <<file>>]
          ELSE IF ~file.content.pdf
          THEN [Response("parse_spec", 500, 0) EXCEPT
                   !.files = <<file>>, !.open_failed = TRUE]
          ELSE [Response("parse_spec", 200, 0) EXCEPT
                   !.files = <<file>>,
                   !.body = scan_sections(page_lines(file.content.pages), 1, NoSection)]
    /\ UNCHANGED <<files_storage, disk, next_id, deleted>>

-----------------------------------------------------------------------------
(* the requests of the document endpoints *)

MaxApiRequests == 2

LineSecGeneral == <<"S", "E", "C", "T", "I", "O", "N", " ", "0", "1", " ", "G", "e", "n", "e", "r", "a", "l">>
LineSecDoors == <<" ", "S", "E", "C", "T", "I", "O", "N", " ", "0", "2", " ", "D", "o", "o", "r", "s">>
LineSecBare == <<"S", "E", "C", "T", "I", "O", "N">>
LineNote == <<"n", "o", "t", "e">>
LineIndented == <<" ", "x", " ">>

UpPdf == [filename |-> NamePdf, content |-> PdfContent(<< <<LineSecGeneral, LineNote>> >>)]
UpUpperPdf ==
    [filename |-> NameUpperPdf,
     content |-> PdfContent(<< <<LineNote>>, <<LineSecDoors, LineIndented>> >>)]
UpBrokenPdf == [filename |-> NamePdf, content |-> TextContent(<<"x">>)]
UpTxt == [filename |-> NameTxt, content |-> TextContent(<<"h", "i">>)]
UpBlankTxt == [filename |-> NameTxt, content |-> TextContent(<<" ", "\n">>)]
UpNoName == [filename |-> NameNone, content |-> TextContent(<<"h", "i">>)]
UpXlsx == [filename |-> NameXlsx, content |-> TextContent(<<"P", "K">>)]
UpDocx == [filename |-> NameDocx, content |-> TextContent(<<"P", "K">>)]

ApiUploads ==
    {UpPdf, UpUpperPdf, UpBrokenPdf, UpTxt, UpBlankTxt, UpNoName, UpXlsx, UpDocx}

\* the lists of files of a request
ApiFileLists ==
    {<<>>} \cup {<<u>> : u \in ApiUploads} \cup
    {<<UpTxt, UpNoName>>, <<UpNoName, UpTxt>>, <<UpPdf, UpTxt>>,
     <<UpBlankTxt, UpBlankTxt>>}

\* the user_id / id field of a request: absent or given
UserIds == {<<>>, <<"u", "1">>}

\* items of a takeoff reply; userEdited, id and createdAt are what the reply
\* itself says in these keys
ItemSlab ==
    [division |-> "03", description |-> <<"S", "l", "a", "b">>, quantity |-> 2040,
     unit |-> "SF", unitCost |-> 9, modifier |-> 0, userEdited |-> FALSE,
     id |-> <<>>, createdAt |-> 0]
ItemSlabAgain ==
    [division |-> "03", description |-> <<" ", "s", "l", "a", "b">>, quantity |-> 10,
     unit |-> "SF", unitCost |-> 12, modifier |-> 0, userEdited |-> TRUE,
     id |-> <<"0", "0">>, createdAt |-> 0]
ItemDoor ==
    [division |-> "08", description |-> <<"D", "o", "o", "r">>, quantity |-> 4,
     unit |-> "EA", unitCost |-> 400, modifier |-> 5, userEdited |-> FALSE,
     id |-> <<>>, createdAt |-> 0]

\* the takeoff replies of the requests of SpecApi
ApiItemLists == {<<>>, <<ItemSlab, ItemDoor>>}
ApiReplies ==
    {<<Reply(<<ItemSlab>>), Unparsable>>, <<Reply(<<>>), Unparsable>>}

ParseSpec ==
    /\ nreq < MaxApiRequests
    /\ nreq' = nreq + 1
    /\ \E file \in ApiUploads : parse_spec(file)
    /\ UNCHANGED parser_vars
    /\ UNCHANGED classifier_vars
    /\ UNCHANGED db_vars

SaveProfile ==
    /\ nreq < MaxApiRequests
    /\ nreq' = nreq + 1
    /\ \E user_id \in UserIds : \E saved \in BOOLEAN : save_profile(user_id, saved)
    /\ UNCHANGED parser_vars
    /\ UNCHANGED classifier_vars
    /\ UNCHANGED db_vars

GenerateSummary ==
    /\ nreq < MaxApiRequests
    /\ nreq' = nreq + 1
    /\ \E files \in ApiFileLists : \E gpt \in GptReplies : generate_summary(files, gpt)
    /\ UNCHANGED parser_vars
    /\ UNCHANGED classifier_vars
    /\ UNCHANGED db_vars

GenerateDivisions ==
    /\ nreq < MaxApiRequests
    /\ nreq' = nreq + 1
    /\ \E files \in ApiFileLists : \E gpt \in GptReplies : generate_divisions(files, gpt)
    /\ UNCHANGED parser_vars
    /\ UNCHANGED classifier_vars
    /\ UNCHANGED db_vars

ExtractTakeoff ==
    /\ nreq < MaxApiRequests
    /\ nreq' = nreq + 1
    /\ \E user_id \in UserIds : \E files \in ApiFileLists : \E gpt \in GptReplies :
           \E items \in ApiItemLists : extract_takeoff(user_id, files, gpt, items)
    /\ UNCHANGED parser_vars
    /\ UNCHANGED classifier_vars

FullScan ==
    /\ nreq < MaxApiRequests
    /\ nreq' = nreq + 1
    /\ \E user_id \in UserIds : \E files \in ApiFileLists : \E gpt \in GptReplies :
           \E replies \in ApiReplies : full_scan(user_id, files, gpt, replies)
    /\ UNCHANGED parser_vars
    /\ UNCHANGED classifier_vars

NextApi ==
    \/ UploadFile
    \/ ParseSpec
    \/ SaveProfile
    \/ GenerateSummary
    \/ GenerateDivisions
    \/ ExtractTakeoff
    \/ FullScan

SpecApi == InitApi /\ [][NextApi]_vars

-----------------------------------------------------------------------------
(* extract_takeoff and full_scan on the replies of a small lexicon of items *)

MaxItems == 2

MaxTakeoffRequests == 2

TakeoffItems == {ItemSlab, ItemSlabAgain}

\* the user of the requests
TakeoffUser == <<"u", "1">>

\* the lists of up to MaxItems items
ItemLists == SeqsUpTo(TakeoffItems, MaxItems)

\* the replies of the two divisions: up to MaxItems items in all, in two
\* lists, or one list and a reply that cannot be parsed
ScanReplies ==
    UNION {{<<Reply(SubSeq(ls, 1, c)), Reply(SubSeq(ls, c + 1, Len(ls)))>> :
                c \in 0..Len(ls)}
           \cup {<<Unparsable, Reply(ls)>>, <<Reply(ls), Unparsable>>} :
           ls \in ItemLists}

\* a row of user_pricing_overrides the user has saved for the slab
SlabOverrideKey == <<TakeoffUser, "03", <<"S", "l", "a", "b">> >>
SlabOverride ==
    [unit |-> "SF", unit_cost |-> 7, source |-> "user", created_at |-> 0]

\* the table when the server starts: new, or kept from an earlier run
OverrideTables == {EmptyMap, Put(EmptyMap, SlabOverrideKey, SlabOverride)}

InitTakeoff ==
    /\ ParserIdle
    /\ ClassifierIdle
    /\ files_storage = EmptyMap
    /\ disk = EmptyMap
    /\ next_id = 0
    /\ nreq = 0
    /\ last = NoRequest
    /\ deleted = {}
    /\ user_pricing_overrides \in OverrideTables

TakeoffRequest ==
    /\ nreq < MaxTakeoffRequests
    /\ nreq' = nreq + 1
    /\ \/ \E items \in ItemLists :
              extract_takeoff(TakeoffUser, <<UpTxt>>, "valid", items)
       \/ extract_takeoff(TakeoffUser, <<UpTxt>>, "unparsable", <<>>)
    /\ UNCHANGED parser_vars
    /\ UNCHANGED classifier_vars

ScanRequest ==
    /\ nreq < MaxTakeoffRequests
    /\ nreq' = nreq + 1
    /\ \/ \E replies \in ScanReplies :
              full_scan(TakeoffUser, <<UpTxt>>, "valid", replies)
       \/ full_scan(TakeoffUser, <<UpTxt>>, "unparsable", <<Unparsable, Unparsable>>)
    /\ UNCHANGED parser_vars
    /\ UNCHANGED classifier_vars

NextTakeoff ==
    \/ TakeoffRequest
    \/ ScanRequest

SpecTakeoff == InitTakeoff /\ [][NextTakeoff]_vars

-----------------------------------------------------------------------------
(* parse_spec on the documents of a small lexicon of lines *)

SectionLexicon ==
    {LineSecGeneral, LineSecDoors, LineSecBare, LineNote, LineIndented, LineBlank}

\* the documents of up to n lines of the lexicon, on up to MaxPages pages
SectionDocs(n) ==
    UNION {Paginations(ls, MaxPages) : ls \in SeqsUpTo(SectionLexicon, n)}

InitSections ==
    /\ openable = TRUE
    /\ doc \in SectionDocs(MaxLines)
    /\ pc = "request"
    /\ page_num = 0
    /\ tables = <<>>
    /\ t_idx = 0
    /\ structured_results = <<>>
    /\ calls = 0
    /\ prev = [tables |-> <<>>, results |-> <<>>]
    /\ ApiIdle
    /\ ClassifierIdle

\* the request for the document doc arrives
ParseSpecDocument ==
    /\ pc = "request"
    /\ pc' = "idle"
    /\ nreq' = nreq + 1
    /\ parse_spec([filename |-> NamePdf, content |-> PdfContent(doc)])
    /\ UNCHANGED <<openable, doc, page_num, tables, t_idx, structured_results, calls, prev>>
    /\ UNCHANGED classifier_vars
    /\ UNCHANGED db_vars

NextSections == ParseSpecDocument

SpecSections == InitSections /\ [][NextSections]_vars

\* C19: get_file and delete_file succeed only for an id that is in
\* files_storage with its file on disk; a successful delete_file takes the id
\* out of files_storage, and every later get_file or delete_file of that id
\* answers 404; a delete_file that fails leaves files_storage as it was.
C19_FileMapConsistent ==
    [][ nreq' = nreq + 1 /\ last'.op \in {"get_file", "delete_file"} =>
          /\ last'.status = 200 =>
                 /\ last'.id \in DOMAIN files_storage
                 /\ files_storage[last'.id] \in DOMAIN disk
          /\ (last'.op = "delete_file" /\ last'.status = 200) =>
                 last'.id \notin DOMAIN files_storage'
          /\ last'.id \in deleted => last'.status = 404
          /\ (last'.op = "delete_file" /\ last'.status # 200) =>
                 files_storage' = files_storage
          /\ last'.op = "get_file" => files_storage' = files_storage
      ]_vars

\* C19 witness: a file was uploaded and deleted, and a later request for it
\* was answered 404 while another file is still stored
C19_Witness ==
    /\ last.op \in {"get_file", "delete_file"}
    /\ last.id \in deleted
    /\ last.status = 404
    /\ DOMAIN files_storage # {}

-----------------------------------------------------------------------------
(* the division / keyword classifier *)

MaxTextLen == 4

\* the static catalog: category -> lowercase keywords, in insertion order
Catalog ==
    << [id |-> "08", title |-> "Openings", keywords |-> << <<"d", "o">>, <<"r", "r">> >>],
       [id |-> "07", title |-> "Roofing", keywords |-> << <<"r", "o">> >>],
       [id |-> "03", title |-> "Concrete", keywords |-> << <<"o", "d", "d">>, <<" ", "o">> >>] >>

\* keyword in blob
RECURSIVE in_from(_, _, _)
in_from(keyword, blob, k) ==
    IF k + Len(keyword) - 1 > Len(blob) THEN FALSE
    ELSE IF SubSeq(blob, k, k + Len(keyword) - 1) = keyword THEN TRUE
    ELSE in_from(keyword, blob, k + 1)

\* any(keyword in blob for keyword in keywords)
RECURSIVE any_keyword(_, _)
any_keyword(keywords, blob) ==
    IF keywords = <<>> THEN FALSE
    ELSE IF in_from(Head(keywords), blob, 1) THEN TRUE
    ELSE any_keyword(Tail(keywords), blob)

\* a faulty classifier: only the categories that matched are returned
RECURSIVE classify_MatchedOnly(_, _)
classify_MatchedOnly(catalog, blob) ==
    IF catalog = <<>> THEN <<>>
    ELSE IF any_keyword(Head(catalog).keywords, blob)
    THEN <<[id |-> Head(catalog).id, title |-> Head(catalog).title,
            matched |-> TRUE, keywords |-> Head(catalog).keywords]>>
         \o classify_MatchedOnly(Tail(catalog), blob)
    ELSE classify_MatchedOnly(Tail(catalog), blob)

\* one ScopeMatch per category, in the order of the catalog
RECURSIVE classify(_, _)
classify(catalog, blob) ==
    IF catalog = <<>> THEN <<>>
    ELSE <<[id |-> Head(catalog).id, title |-> Head(catalog).title,
            matched |-> any_keyword(Head(catalog).keywords, blob),
            keywords |-> Head(catalog).keywords]>>
         \o classify(Tail(catalog), blob)

\* the characters of the texts
TextChars == {"d", "o", "r", "D", " "}

InitClassifier ==
    /\ ParserIdle
    /\ ApiIdle
    /\ input_text \in SeqsUpTo(TextChars, MaxTextLen)
    /\ matches = <<>>

\* a request classifies its text, lowercased
Classify ==
    /\ nreq = 0
    /\ nreq' = 1
    /\ matches' = classify(Catalog, lower_str(input_text))
    /\ UNCHANGED <<input_text, files_storage, disk, next_id, last, deleted>>
    /\ UNCHANGED parser_vars
    /\ UNCHANGED db_vars

NextClassifier == Classify

SpecClassifier == InitClassifier /\ [][NextClassifier]_vars

-----------------------------------------------------------------------------
(* the document endpoints: what the responses are claimed to be *)

\* a response of the handler op has been made
Answered(op) == nreq > 0 /\ last.op = op

\* the file's name ends in ext, whatever the case of its letters
NamedLike(file, ext) ==
    /\ Len(file.filename) >= Len(ext)
    /\ \A k \in 1..Len(ext) :
           lower(file.filename[Len(file.filename) - Len(ext) + k]) = ext[k]

\* C14: when opening an uploaded document as a PDF fails in parse_spec or
\* generate_summary, the request is answered as for a document with no text
\* and not with a server error.
C14_OpenFailureIsNoText ==
    (last.op \in {"parse_spec", "generate_summary"} /\ last.open_failed) =>
        /\ last.status # 500
        /\ last.text = <<>>
        /\ last.body = <<>>

\* the endpoints that extract the text of the uploads for the model
DocumentEndpoints ==
    {"generate_summary", "generate_divisions", "extract_takeoff", "full_scan"}

\* the text the PDF text extractor gives for a PDF: the text of each page, in
\* page order
RECURSIVE ExtractorText(_)
ExtractorText(pages) ==
    IF pages = <<>> THEN <<>>
    ELSE IF Len(pages) = 1 THEN get_text(pages[1])
    ELSE get_text(pages[1]) \o BlankLine \o ExtractorText(Tail(pages))

\* C17: in generate_summary, generate_divisions, extract_takeoff and
\* full_scan the text of an uploaded file named *.pdf comes from the PDF text
\* extractor and not from decoding its bytes, and in full_scan a file named
\* *.xlsx or *.docx contributes its placeholder line.
C17_PdfTextFromExtractor ==
    (last.op \in DocumentEndpoints /\ last.status = 200) =>
        LET stored == named_only(last.files)
        IN  /\ \A k \in 1..Len(stored) :
                   /\ NamedLike(stored[k], ExtPdf) => last.methods[k] = "pdf"
                   /\ (last.op = "full_scan" /\ NamedLike(stored[k], ExtXlsx)) =>
                          last.methods[k] = "xlsx"
                   /\ (last.op = "full_scan" /\ NamedLike(stored[k], ExtDocx)) =>
                          last.methods[k] = "docx"
            /\ (Len(stored) = 1 /\ NamedLike(stored[1], ExtPdf)
                    /\ stored[1].content.pdf) =>
                   strip_text(last.text) = strip_text(ExtractorText(stored[1].content.pages))

\* C20: a request that a handler rejects with HTTPException(400) reaches the
\* client with status 400.
C20_RejectedWith400Answers400 ==
    last.raised = 400 => last.status = 400

-----------------------------------------------------------------------------
(* parse_spec: what specIndex is claimed to be *)

\* the lines of all pages, in order
RECURSIVE AllLines(_)
AllLines(pages) ==
    IF pages = <<>> THEN <<>> ELSE Head(pages) \o AllLines(Tail(pages))

\* the line starts with SECTION
StartsSection(line) ==
    LET l == strip(line)
    IN  Len(l) >= Len(SectionWord) /\ \A k \in 1..Len(SectionWord) : l[k] = SectionWord[k]

\* the line starts with SECTION and has a number and a title after it
WellFormedHeader(line) ==
    /\ StartsSection(line)
    /\ Len(split_space_2(strip(line))) = 3
    /\ strip(split_space_2(strip(line))[2]) # <<>>
    /\ strip(split_space_2(strip(line))[3]) # <<>>

\* the stripped lines a+1 .. b-1, each followed by a line end
RECURSIVE StrippedLines(_, _, _)
StrippedLines(lines, a, b) ==
    IF a + 1 >= b THEN <<>>
    ELSE strip(lines[a + 1]) \o <<"\n">> \o StrippedLines(lines, a + 1, b)

\* the record claimed for the header at pos: its number, its title and the
\* lines up to the next line starting with SECTION or the end of the document
ClaimedRecord(lines, pos) ==
    LET later == {k \in (pos + 1)..Len(lines) : StartsSection(lines[k])}
        stop == IF later = {} THEN Len(lines) + 1 ELSE Min(later)
        parts == split_space_2(strip(lines[pos]))
    IN  [section |-> strip(parts[2]), title |-> strip(parts[3]),
         text |-> strip_text(StrippedLines(lines, pos, stop))]

\* the claimed records of the headers at the positions of S, in document order
RECURSIVE ClaimedRecords(_, _)
ClaimedRecords(lines, S) ==
    IF S = {} THEN <<>>
    ELSE <<ClaimedRecord(lines, Min(S))>> \o ClaimedRecords(lines, S \ {Min(S)})

\* C18: every record of specIndex is the record of one distinct well-formed
\* SECTION header line, in document order: section and title from the header,
\* text the stripped lines up to the next line starting with SECTION, and
\* no line before the first well-formed header in any record.
C18_RecordsAreHeaderSections ==
    (pc = "idle" /\ Answered("parse_spec") /\ last.status = 200) =>
        LET lines == AllLines(doc)
            headers == {k \in 1..Len(lines) : WellFormedHeader(lines[k])}
        IN  \E S \in SUBSET headers : last.body = ClaimedRecords(lines, S)

-----------------------------------------------------------------------------
(* the keyword classifier: what the match records are claimed to be *)

\* the text has been classified
Classified == nreq = 1

\* the text in lower case
LoweredText == [k \in 1..Len(input_text) |-> lower(input_text[k])]

\* w occurs in t
Occurs(w, t) ==
    \E a \in 1..(Len(t) - Len(w) + 1) : \A k \in 1..Len(w) : t[a + k - 1] = w[k]

\* C16: for a catalog of N categories the output has exactly N records, one
\* per category in the order of the catalog, each with a boolean matched that
\* is TRUE exactly when some keyword of the category occurs in the lowercased
\* text; with empty text every category is unmatched.
C16_OneRecordPerCategory ==
    Classified =>
        /\ Len(matches) = Len(Catalog)
        /\ \A k \in 1..Len(Catalog) :
               k <= Len(matches) =>
                   /\ matches[k].id = Catalog[k].id
                   /\ matches[k].title = Catalog[k].title
                   /\ matches[k].matched \in BOOLEAN
                   /\ matches[k].matched =
                          (\E j \in 1..Len(Catalog[k].keywords) :
                               Occurs(Catalog[k].keywords[j], LoweredText))
        /\ input_text = <<>> => \A k \in 1..Len(matches) : ~matches[k].matched

\* C16 witness: a text with a capital letter was classified; the first
\* category is matched through its lowercased text and the second is not
C16_Witness ==
    /\ Classified
    /\ input_text = <<"D", "o">>
    /\ Len(matches) = 3
    /\ matches[1].matched
    /\ ~matches[2].matched

-----------------------------------------------------------------------------
(* the takeoff merge: what the returned takeoff is claimed to be *)

\* the items of the replies that are lists, in the order received
RECURSIVE ReceivedItems(_)
ReceivedItems(replies) ==
    IF replies = <<>> THEN <<>>
    ELSE (IF Head(replies).kind = "valid" THEN Head(replies).items ELSE <<>>)
         \o ReceivedItems(Tail(replies))

\* the returned row is the received item, metadata apart
SameItem(row, item) ==
    /\ row.division = item.division
    /\ row.description = item.description
    /\ row.quantity = item.quantity
    /\ row.unit = item.unit
    /\ row.unitCost = item.unitCost
    /\ row.modifier = item.modifier

\* the uuids drawn before this request
DrawnBefore == {uuid4(n) : n \in 0..(next_id - 1)}

=============================================================================
